---- MODULE Spec2Model ----
(***************************************************************************)
(* LoggingContentGenerator (packages/core/src/telemetry/semantic.ts): a    *)
(* decorator around a ContentGenerator that hands Request, Response and    *)
(* Error events to the telemetry sink.                                     *)
(*                                                                         *)
(* JavaScript values are dynamically typed, so every value is a record     *)
(* carrying its runtime type in the field t: strings and numbers keep      *)
(* their payload in v, objects keep their properties as further fields,    *)
(* undefined has no payload.                                               *)
(***************************************************************************)
EXTENDS Integers, Sequences, FiniteSets, TLC

VARIABLES
    pc,                 \* per call: where the async function / generator is suspended
    op,                 \* per call: which operation the caller invoked
    req,                \* per call: the request the caller passed
    promptId,           \* per call: the userPromptId the caller passed
    startTime,          \* per call: const startTime = Date.now()
    backendArgs,        \* per call: the arguments of every invocation of the wrapped generator
    backendSeq,         \* per call: the chunks the backend sequence has produced so far
    backendEnd,         \* per call: how the backend's operation ended
    responses,          \* per call: loggingStreamWrapper's local responses[]
    lastUsageMetadata,  \* per call: loggingStreamWrapper's local lastUsageMetadata
    finishReason,       \* per call: loggingStreamWrapper's local finishReason
    yielded,            \* per call: the chunk the wrapper has yielded and the caller has not got yet
    received,           \* per call: the chunks the caller got from the wrapper
    result,             \* per call: what the caller observed when the call ended
    events,             \* the sink: every event accepted so far, in order
    now,                \* Date.now()
    sinkFaulty,         \* whether the sink of this run can throw
    contentsIn,         \* toSemanticMessage: the contents it is called with
    messages            \* toSemanticMessage: the messages it returned

vars == <<pc, op, req, promptId, startTime, backendArgs, backendSeq, backendEnd, responses,
          lastUsageMetadata, finishReason, received, result, events, now, sinkFaulty,
          contentsIn, messages, yielded>>

(***************************************************************************)
(* Bounds                                                                  *)
(***************************************************************************)
MaxChunks == 2      \* longest backend sequence explored
MaxTime == 1        \* Date.now() ranges over 0..MaxTime
MaxTurns == 2       \* most turns in a turn list given to toSemanticMessage
MaxParts == 2       \* most segments in a turn list, over all its turns

Calls == {"a", "b"}

(***************************************************************************)
(* JavaScript values                                                       *)
(***************************************************************************)
Undefined == [t |-> "undefined"]
Str(s) == [t |-> "string", v |-> s]
Num(n) == [t |-> "number", v |-> n]
Arr(s) == [t |-> "array", v |-> s]

\* JSON.stringify(x): the string holding the JSON text of x. It is a string
\* that differs from every plain string of the model and from the JSON text
\* of every other value.
JSONstringify(x) == IF x.t = "undefined" THEN Undefined ELSE [t |-> "string", json |-> x]

\* ToBoolean(x), as used by ||, if (...) and ?.
Truthy(x) ==
    CASE x.t = "undefined" -> FALSE
      [] x.t = "string" /\ "v" \in DOMAIN x -> x.v # ""
      [] x.t = "number" -> x.v # 0
      [] OTHER -> TRUE

\* a || b
Or(a, b) == IF Truthy(a) THEN a ELSE b

\* x?.name : undefined when x is undefined or has no such property
Get(x, name) == IF name \in DOMAIN x /\ name # "t" THEN x[name] ELSE Undefined

\* arr?.[0]
First(arr) ==
    IF arr.t = "array" /\ Len(arr.v) > 0 THEN arr.v[1] ELSE Undefined

(***************************************************************************)
(* The inputs: requests, correlation ids, backend chunks and failures      *)
(***************************************************************************)
Usage1 == [t |-> "object", promptTokenCount |-> Num(3), candidatesTokenCount |-> Num(1),
           cachedContentTokenCount |-> Undefined, thoughtsTokenCount |-> Undefined,
           toolUsePromptTokenCount |-> Undefined, totalTokenCount |-> Num(4)]
Usage2 == [t |-> "object", promptTokenCount |-> Num(3), candidatesTokenCount |-> Num(5),
           cachedContentTokenCount |-> Num(2), thoughtsTokenCount |-> Num(1),
           toolUsePromptTokenCount |-> Undefined, totalTokenCount |-> Num(9)]

Candidate(fr) == [t |-> "object", finishReason |-> fr]

GenerateContentResponse(mv, rid, um, cands) ==
    [t |-> "object", modelVersion |-> mv, responseId |-> rid,
     usageMetadata |-> um, candidates |-> cands]

\* A first chunk with model version and usage but no finish reason, a chunk
\* with none of the optional fields, and a final chunk with a finish reason
\* and the totals.
Chunks ==
    { GenerateContentResponse(Str("gemini-v2"), Str("r1"), Usage1, Arr(<<Candidate(Undefined)>>)),
      GenerateContentResponse(Undefined, Str("r2"), Undefined, Undefined),
      GenerateContentResponse(Str("gemini-v3"), Str("r3"), Usage2, Arr(<<Candidate(Str("STOP"))>>)) }

GenerateContentParameters(model, contents, config) ==
    [t |-> "object", model |-> model, contents |-> contents, config |-> config]

Turn(role, parts) == [t |-> "object", role |-> role, parts |-> parts]

RequestA == GenerateContentParameters(Str("gemini-pro"), Str("hi"), Undefined)
RequestB ==
    GenerateContentParameters(Str("gemini-flash"),
        Arr(<<Turn(Str("user"), Arr(<<[t |-> "object", text |-> Str("hello")]>>))>>),
        [t |-> "object", temperature |-> Num(1), topP |-> Undefined, topK |-> Num(40)])

\* What a caller passes: a request and its correlation id.
Inputs == { <<RequestA, Str("p1")>>, <<RequestB, Str("p2")>> }

\* What a backend can throw: an Error with a status, and a bare string.
JsError(name, message, status) ==
    [t |-> "Error", name |-> name, message |-> message, status |-> status]

BackendErrors ==
    { JsError(Str("ApiError"), Str("quota exceeded"), Num(429)),
      Str("boom") }

\* What a failing sink throws.
SinkError == JsError(Str("Error"), Str("sink unavailable"), Undefined)

(***************************************************************************)
(* Collaborators that live outside semantic.ts                             *)
(***************************************************************************)
\* toContents(req.contents): a bare string becomes one user turn holding one
\* text segment; a list of turns is kept.
toContents(contents) ==
    IF contents.t = "string"
    THEN Arr(<<Turn(Str("user"), Arr(<<[t |-> "object", text |-> contents]>>))>>)
    ELSE contents

\* isStructuredError(error): the failure carries a numeric status.
isStructuredError(error) == Get(error, "status").t = "number"

\* this.config.getContentGeneratorConfig()?.authType
AuthType == Str("oauth-personal")

\* logApiRequest / logApiResponse / logApiError of telemetry/loggers.js: the
\* sink either accepts the event ("ok") or throws SinkError without
\* recording it ("throw"). An accepted event is stored with the call that
\* emitted it.
SinkOutcomes == IF sinkFaulty THEN {"ok", "throw"} ELSE {"ok"}

Sink(log, c, ev, o) == IF o = "ok" THEN Append(log, [call |-> c, ev |-> ev]) ELSE log

(***************************************************************************)
(* The private logging helpers: each builds the event handed to the sink   *)
(***************************************************************************)
logApiRequest(contents, model, prompt_id) ==
    [type |-> "request", model |-> model, prompt_id |-> prompt_id,
     request_text |-> JSONstringify(contents)]

\* (prompt_length, the length of the prompt string, is left out: it is a
\* function of prompt.)
_logApiResponse(contents, durationMs, model, prompt_id, responseId, usageMetadata, responseText, finish_reason, generationConfig) ==
    [type |-> "response",
     model |-> model,
     duration_ms |-> durationMs,
     prompt_id |-> prompt_id,
     temperature |-> Get(generationConfig, "temperature"),
     top_p |-> Get(generationConfig, "topP"),
     top_k |-> Get(generationConfig, "topK"),
     prompt |-> JSONstringify(contents),
     finish_reason |-> finish_reason,
     response_id |-> responseId,
     input_token_count |-> Get(usageMetadata, "promptTokenCount"),
     output_token_count |-> Get(usageMetadata, "candidatesTokenCount"),
     cached_content_token_count |-> Get(usageMetadata, "cachedContentTokenCount"),
     thoughts_token_count |-> Get(usageMetadata, "thoughtsTokenCount"),
     tool_token_count |-> Get(usageMetadata, "toolUsePromptTokenCount"),
     total_token_count |-> Get(usageMetadata, "totalTokenCount"),
     auth_type |-> AuthType,
     usage_metadata |-> usageMetadata,
     response_text |-> responseText]

_logApiError(durationMs, error, model, prompt_id) ==
    [type |-> "error",
     model |-> model,
     error_message |-> IF error.t = "Error" THEN error.message ELSE error,
     duration_ms |-> durationMs,
     prompt_id |-> prompt_id,
     auth_type |-> AuthType,
     error_type |-> IF error.t = "Error" THEN error.name ELSE Str("unknown"),
     status_code |-> IF isStructuredError(error) THEN error.status ELSE Undefined]

\* response.candidates?.[0]?.finishReason
FirstFinishReason(response) == Get(First(Get(response, "candidates")), "finishReason")

(***************************************************************************)
(* What a caller can observe when its call ends                            *)
(***************************************************************************)
Pending == [k |-> "pending"]
Returned(v) == [k |-> "returned", v |-> v]     \* the promise resolved with v
Threw(e) == [k |-> "threw", v |-> e]           \* the promise rejected with e
Streaming == [k |-> "streaming"]               \* the caller holds an open wrapper sequence
Completed == [k |-> "completed"]               \* the wrapper sequence ended normally
Raised(e) == [k |-> "raised", v |-> e]         \* the wrapper sequence ended by raising e
Closed == [k |-> "closed"]                     \* the caller closed the wrapper sequence

\* Date.now() - startTime
Elapsed(c) == Num(now - startTime[c])

(***************************************************************************)
(* generateContent                                                         *)
(***************************************************************************)
\* Mutant: the catch block throws a new Error wrapping the failure.
GenerateContentCatchWrapping(log, c, error, o) ==
    LET ev == _logApiError(Elapsed(c), error, req[c].model, promptId[c])
    IN  [events |-> Sink(log, c, ev, o),
         result |-> Threw(JsError(Str("Error"), Str("generateContent failed"), Undefined))]

\* catch (error) { _logApiError(...); throw error; }
\* A sink that throws inside the catch block replaces the failure in flight.
GenerateContentCatch(log, c, error, o) ==
    LET ev == _logApiError(Elapsed(c), error, req[c].model, promptId[c])
    IN  [events |-> Sink(log, c, ev, o),
         result |-> IF o = "ok" THEN Threw(error) ELSE Threw(SinkError)]

\* Mutant: the response is returned without being logged.
GenerateContentTryUnlogged(c, response, o1, o2) ==
    [events |-> events, result |-> Returned(response)]

\* The statements after the await inside try: _logApiResponse(...); return
\* response. The call to the sink is inside the try block, so a sink that
\* throws lands in the catch block.
GenerateContentTry(c, response, o1, o2) ==
    LET ev == _logApiResponse(toContents(req[c].contents),
                              Elapsed(c),
                              Or(response.modelVersion, req[c].model),
                              promptId[c],
                              response.responseId,
                              response.usageMetadata,
                              JSONstringify(response),
                              FirstFinishReason(response),
                              req[c].config)
    IN  IF o1 = "ok"
        THEN [events |-> Sink(events, c, ev, o1), result |-> Returned(response)]
        ELSE GenerateContentCatch(Sink(events, c, ev, o1), c, SinkError, o2)

\* The arguments handed to this.wrapped.generateContent / generateContentStream.
WrappedArgs(r, p) == <<r, p>>

\* The synchronous start of generateContent and of generateContentStream:
\* startTime, the Request event, then the call of the wrapped generator. A
\* sink that throws rejects the call before the backend is invoked.
Begin(c, operation, awaiting, r, p, o) ==
    /\ pc[c] = "idle"
    /\ c = "b" => pc["a"] # "idle"       \* the calls are named in the order they start
    /\ op' = [op EXCEPT ![c] = operation]
    /\ req' = [req EXCEPT ![c] = r]
    /\ promptId' = [promptId EXCEPT ![c] = p]
    /\ startTime' = [startTime EXCEPT ![c] = now]
    /\ events' = Sink(events, c, logApiRequest(toContents(r.contents), r.model, p), o)
    /\ IF o = "ok"
       THEN /\ backendArgs' = [backendArgs EXCEPT ![c] = Append(@, WrappedArgs(r, p))]
            /\ pc' = [pc EXCEPT ![c] = awaiting]
            /\ result' = result
       ELSE /\ backendArgs' = backendArgs
            /\ pc' = [pc EXCEPT ![c] = "done"]
            /\ result' = [result EXCEPT ![c] = Threw(SinkError)]
    /\ UNCHANGED <<backendSeq, backendEnd, responses, lastUsageMetadata, finishReason,
                   received, now, sinkFaulty,
                   contentsIn, messages, yielded>>

GenerateContent(c) ==
    \E in \in Inputs, o \in SinkOutcomes :
        Begin(c, "generateContent", "awaitGenerateContent", in[1], in[2], o)

\* The wrapped generateContent resolved with response.
GenerateContentFulfilled(c) ==
    \E response \in Chunks, o1 \in SinkOutcomes, o2 \in SinkOutcomes :
        /\ pc[c] = "awaitGenerateContent"
        /\ backendEnd' = [backendEnd EXCEPT ![c] = Returned(response)]
        /\ LET out == GenerateContentTry(c, response, o1, o2)
           IN  /\ events' = out.events
               /\ result' = [result EXCEPT ![c] = out.result]
        /\ pc' = [pc EXCEPT ![c] = "done"]
        /\ UNCHANGED <<op, req, promptId, startTime, backendArgs, backendSeq, responses,
                       lastUsageMetadata, finishReason, received, now, sinkFaulty,
                       contentsIn, messages, yielded>>

\* The wrapped generateContent rejected with error.
GenerateContentRejected(c) ==
    \E error \in BackendErrors, o \in SinkOutcomes :
        /\ pc[c] = "awaitGenerateContent"
        /\ backendEnd' = [backendEnd EXCEPT ![c] = Threw(error)]
        /\ LET out == GenerateContentCatch(events, c, error, o)
           IN  /\ events' = out.events
               /\ result' = [result EXCEPT ![c] = out.result]
        /\ pc' = [pc EXCEPT ![c] = "done"]
        /\ UNCHANGED <<op, req, promptId, startTime, backendArgs, backendSeq, responses,
                       lastUsageMetadata, finishReason, received, now, sinkFaulty,
                       contentsIn, messages, yielded>>

(***************************************************************************)
(* generateContentStream                                                   *)
(***************************************************************************)
GenerateContentStream(c) ==
    \E in \in Inputs, o \in SinkOutcomes :
        Begin(c, "generateContentStream", "awaitGenerateContentStream", in[1], in[2], o)

\* Mutant: the setup failure is logged and swallowed.
GenerateContentStreamCatchSwallows(log, c, error, o) ==
    LET ev == _logApiError(Elapsed(c), error, req[c].model, promptId[c])
    IN  [events |-> Sink(log, c, ev, o), result |-> Returned(Undefined)]

\* Mutant: the setup failure is logged twice.
GenerateContentStreamCatchTwice(log, c, error, o) ==
    LET ev == _logApiError(Elapsed(c), error, req[c].model, promptId[c])
    IN  [events |-> Sink(Sink(log, c, ev, o), c, ev, o), result |-> Threw(error)]

\* catch (error) around the await of this.wrapped.generateContentStream
GenerateContentStreamCatch(log, c, error, o) ==
    LET ev == _logApiError(Elapsed(c), error, req[c].model, promptId[c])
    IN  [events |-> Sink(log, c, ev, o),
         result |-> IF o = "ok" THEN Threw(error) ELSE Threw(SinkError)]

\* The wrapped generateContentStream resolved with a sequence: the caller
\* gets loggingStreamWrapper(stream, startTime, userPromptId, req.model),
\* whose body has not started.
GenerateContentStreamFulfilled(c) ==
    /\ pc[c] = "awaitGenerateContentStream"
    /\ pc' = [pc EXCEPT ![c] = "suspended"]
    /\ result' = [result EXCEPT ![c] = Streaming]
    /\ UNCHANGED <<op, req, promptId, startTime, backendArgs, backendSeq, backendEnd,
                   responses, lastUsageMetadata, finishReason, received, events, now,
                   sinkFaulty,
                   contentsIn, messages, yielded>>

\* The wrapped generateContentStream rejected with error: no wrapper is made.
GenerateContentStreamRejected(c) ==
    \E error \in BackendErrors, o \in SinkOutcomes :
        /\ pc[c] = "awaitGenerateContentStream"
        /\ backendEnd' = [backendEnd EXCEPT ![c] = Threw(error)]
        /\ LET out == GenerateContentStreamCatch(events, c, error, o)
           IN  /\ events' = out.events
               /\ result' = [result EXCEPT ![c] = out.result]
        /\ pc' = [pc EXCEPT ![c] = "done"]
        /\ UNCHANGED <<op, req, promptId, startTime, backendArgs, backendSeq, responses,
                       lastUsageMetadata, finishReason, received, now, sinkFaulty,
                       contentsIn, messages, yielded>>

(***************************************************************************)
(* loggingStreamWrapper                                                    *)
(***************************************************************************)
\* responses[0]?.modelVersion || model
FirstModelOr(c) == Or(Get(First(Arr(responses[c])), "modelVersion"), req[c].model)

\* Mutant: the tracked values are overwritten by every chunk, also by one
\* that carries no usage metadata or finish reason.
LoopBodyOverwrites(c, response) ==
    [responses |-> Append(responses[c], response),
     lastUsageMetadata |-> response.usageMetadata,
     finishReason |-> FirstFinishReason(response),
     yielded |-> response]

\* Mutant: the loop yields the first accumulated chunk instead of the current one.
LoopBodyYieldsFirst(c, response) ==
    [responses |-> Append(responses[c], response),
     lastUsageMetadata |-> IF Truthy(response.usageMetadata)
                           THEN response.usageMetadata ELSE lastUsageMetadata[c],
     finishReason |-> IF Truthy(FirstFinishReason(response))
                      THEN FirstFinishReason(response) ELSE finishReason[c],
     yielded |-> Append(responses[c], response)[1]]

\* The body of the for await loop for one chunk: accumulate, track, yield.
LoopBody(c, response) ==
    [responses |-> Append(responses[c], response),
     lastUsageMetadata |-> IF Truthy(response.usageMetadata)
                           THEN response.usageMetadata ELSE lastUsageMetadata[c],
     finishReason |-> IF Truthy(FirstFinishReason(response))
                      THEN FirstFinishReason(response) ELSE finishReason[c],
     yielded |-> response]

\* Mutant: a failing stream also logs a Response event for the chunks seen.
WrapperCatchPartialResponse(log, c, error, o) ==
    LET partial == _logApiResponse(Undefined, Elapsed(c), FirstModelOr(c), promptId[c],
                                   Undefined, lastUsageMetadata[c],
                                   JSONstringify(Arr(responses[c])), finishReason[c],
                                   Undefined)
        ev == _logApiError(Elapsed(c), error, FirstModelOr(c), promptId[c])
    IN  [events |-> Sink(Sink(log, c, partial, o), c, ev, o), result |-> Raised(error)]

\* catch (error) { _logApiError(...); throw error; }
WrapperCatch(log, c, error, o) ==
    LET ev == _logApiError(Elapsed(c), error, FirstModelOr(c), promptId[c])
    IN  [events |-> Sink(log, c, ev, o),
         result |-> IF o = "ok" THEN Raised(error) ELSE Raised(SinkError)]

\* Mutant: the wrapper ends after the last chunk without logging anything.
WrapperCompletionSilent(c, o1, o2) == [events |-> events, result |-> Completed]

\* The statements after the loop, inside try. The call passes seven
\* arguments, starting with durationMs, to the nine parameters of
\* _logApiResponse, which start with contents: each argument binds to the
\* parameter one place before the one it is meant for, and the last two
\* parameters are undefined.
WrapperCompletion(c, o1, o2) ==
    LET ev == _logApiResponse(Elapsed(c),
                              FirstModelOr(c),
                              promptId[c],
                              Get(First(Arr(responses[c])), "responseId"),
                              lastUsageMetadata[c],
                              JSONstringify(Arr(responses[c])),
                              finishReason[c],
                              Undefined,
                              Undefined)
    IN  IF o1 = "ok"
        THEN [events |-> Sink(events, c, ev, o1), result |-> Completed]
        ELSE WrapperCatch(Sink(events, c, ev, o1), c, SinkError, o2)

\* The caller asks the wrapper for the next chunk: the generator resumes (or
\* starts) and awaits the backend sequence.
WrapperNext(c) ==
    /\ pc[c] = "suspended"
    /\ pc' = [pc EXCEPT ![c] = "awaitChunk"]
    /\ UNCHANGED <<op, req, promptId, startTime, backendArgs, backendSeq, backendEnd,
                   responses, lastUsageMetadata, finishReason, received, result, events,
                   now, sinkFaulty,
                   contentsIn, messages, yielded>>

\* Mutant: the wrapper keeps the chunk and goes on to take the next one
\* without handing anything to the caller.
YieldBuffered(c, response) == [pc |-> "awaitChunk", yielded |-> Undefined]

\* yield response: the generator hands the chunk over and stays at the yield.
Yield(c, response) == [pc |-> "yield", yielded |-> response]

\* The backend sequence produced a chunk: the loop body runs up to the yield.
WrapperChunk(c) ==
    \E response \in Chunks :
        /\ pc[c] = "awaitChunk"
        /\ Len(backendSeq[c]) < MaxChunks
        /\ backendSeq' = [backendSeq EXCEPT ![c] = Append(@, response)]
        /\ LET out == LoopBody(c, response)
               at == Yield(c, out.yielded)
           IN  /\ responses' = [responses EXCEPT ![c] = out.responses]
               /\ lastUsageMetadata' = [lastUsageMetadata EXCEPT ![c] = out.lastUsageMetadata]
               /\ finishReason' = [finishReason EXCEPT ![c] = out.finishReason]
               /\ yielded' = [yielded EXCEPT ![c] = at.yielded]
               /\ pc' = [pc EXCEPT ![c] = at.pc]
        /\ UNCHANGED <<op, req, promptId, startTime, backendArgs, backendEnd, received,
                       result, events, now, sinkFaulty, contentsIn, messages>>

\* The caller's pending pull resolves with the yielded chunk; the generator
\* stays suspended at the yield until the caller pulls again.
WrapperYield(c) ==
    /\ pc[c] = "yield"
    /\ received' = [received EXCEPT ![c] = Append(@, yielded[c])]
    /\ yielded' = [yielded EXCEPT ![c] = Undefined]
    /\ pc' = [pc EXCEPT ![c] = "suspended"]
    /\ UNCHANGED <<op, req, promptId, startTime, backendArgs, backendSeq, backendEnd,
                   responses, lastUsageMetadata, finishReason, result, events, now,
                   sinkFaulty, contentsIn, messages>>

\* The backend sequence completed normally.
WrapperDone(c) ==
    \E o1 \in SinkOutcomes, o2 \in SinkOutcomes :
        /\ pc[c] = "awaitChunk"
        /\ backendEnd' = [backendEnd EXCEPT ![c] = Completed]
        /\ LET out == WrapperCompletion(c, o1, o2)
           IN  /\ events' = out.events
               /\ result' = [result EXCEPT ![c] = out.result]
        /\ pc' = [pc EXCEPT ![c] = "done"]
        /\ UNCHANGED <<op, req, promptId, startTime, backendArgs, backendSeq, responses,
                       lastUsageMetadata, finishReason, received, now, sinkFaulty,
                       contentsIn, messages, yielded>>

\* The backend sequence failed with error.
WrapperFailed(c) ==
    \E error \in BackendErrors, o \in SinkOutcomes :
        /\ pc[c] = "awaitChunk"
        /\ backendEnd' = [backendEnd EXCEPT ![c] = Raised(error)]
        /\ LET out == WrapperCatch(events, c, error, o)
           IN  /\ events' = out.events
               /\ result' = [result EXCEPT ![c] = out.result]
        /\ pc' = [pc EXCEPT ![c] = "done"]
        /\ UNCHANGED <<op, req, promptId, startTime, backendArgs, backendSeq, responses,
                       lastUsageMetadata, finishReason, received, now, sinkFaulty,
                       contentsIn, messages, yielded>>

\* The caller closes the wrapper (return()) while it is suspended, or breaks
\* out of its own loop: the generator ends at the yield, the try statement
\* has no finally block, nothing is logged. A caller that abandons the
\* wrapper without closing it simply never takes WrapperNext again.
\* Mutant: a finally block logs a Response event when the wrapper is closed.
WrapperCloseLogged(c) ==
    [events |-> Sink(events, c,
                     _logApiResponse(Undefined, Elapsed(c), FirstModelOr(c), promptId[c],
                                     Undefined, lastUsageMetadata[c],
                                     JSONstringify(Arr(responses[c])), finishReason[c],
                                     Undefined), "ok"),
     result |-> Closed]

WrapperClose(c) == [events |-> events, result |-> Closed]

WrapperReturn(c) ==
    /\ pc[c] = "suspended"
    /\ pc' = [pc EXCEPT ![c] = "done"]
    /\ LET out == WrapperClose(c)
       IN  /\ events' = out.events
           /\ result' = [result EXCEPT ![c] = out.result]
    /\ UNCHANGED <<op, req, promptId, startTime, backendArgs, backendSeq, backendEnd,
                   responses, lastUsageMetadata, finishReason, received, now,
                   sinkFaulty,
                   contentsIn, messages, yielded>>

(***************************************************************************)
(* countTokens and embedContent                                            *)
(***************************************************************************)
CountTokensParameters == [t |-> "object", model |-> Str("gemini-pro"), contents |-> Str("hi")]
CountTokensResponse == [t |-> "object", totalTokens |-> Num(7)]
EmbedContentParameters == [t |-> "object", model |-> Str("embedding-001"), contents |-> Str("hi")]
EmbedContentResponse == [t |-> "object", embeddings |-> Arr(<<Num(1), Num(2)>>)]

\* How the wrapped countTokens / embedContent can settle.
CountTokensOutcomes == {Returned(CountTokensResponse)} \cup {Threw(e) : e \in BackendErrors}
EmbedContentOutcomes == {Returned(EmbedContentResponse)} \cup {Threw(e) : e \in BackendErrors}

\* Mutant: a failure of the wrapped countTokens is logged as an Error event.
CountTokensSettleLogged(c, outcome) ==
    [events |-> IF outcome.k = "threw"
                THEN Sink(events, c, _logApiError(Num(0), outcome.v, req[c].model, Undefined), "ok")
                ELSE events,
     result |-> outcome]

\* return this.wrapped.countTokens(req): the caller's promise settles as the
\* backend's promise does, nothing is handed to the sink.
CountTokensSettle(c, outcome) == [events |-> events, result |-> outcome]

\* return this.wrapped.embedContent(req)
EmbedContentSettle(c, outcome) == [events |-> events, result |-> outcome]

\* The synchronous part of both: the wrapped operation is invoked with req.
PassThroughBegin(c, operation, awaiting, r) ==
    /\ pc[c] = "idle"
    /\ c = "b" => pc["a"] # "idle"       \* the calls are named in the order they start
    /\ op' = [op EXCEPT ![c] = operation]
    /\ req' = [req EXCEPT ![c] = r]
    /\ backendArgs' = [backendArgs EXCEPT ![c] = Append(@, WrappedArgs(r, Undefined))]
    /\ pc' = [pc EXCEPT ![c] = awaiting]
    /\ UNCHANGED <<promptId, startTime, backendSeq, backendEnd, responses,
                   lastUsageMetadata, finishReason, received, result, events, now,
                   sinkFaulty,
                   contentsIn, messages, yielded>>

PassThroughSettled(c, awaiting, outcome, out) ==
    /\ pc[c] = awaiting
    /\ backendEnd' = [backendEnd EXCEPT ![c] = outcome]
    /\ events' = out.events
    /\ result' = [result EXCEPT ![c] = out.result]
    /\ pc' = [pc EXCEPT ![c] = "done"]
    /\ UNCHANGED <<op, req, promptId, startTime, backendArgs, backendSeq, responses,
                   lastUsageMetadata, finishReason, received, now, sinkFaulty,
                   contentsIn, messages, yielded>>

CountTokens(c) == PassThroughBegin(c, "countTokens", "awaitCountTokens", CountTokensParameters)

CountTokensSettled(c) ==
    \E outcome \in CountTokensOutcomes :
        PassThroughSettled(c, "awaitCountTokens", outcome, CountTokensSettle(c, outcome))

EmbedContent(c) == PassThroughBegin(c, "embedContent", "awaitEmbedContent", EmbedContentParameters)

EmbedContentSettled(c) ==
    \E outcome \in EmbedContentOutcomes :
        PassThroughSettled(c, "awaitEmbedContent", outcome, EmbedContentSettle(c, outcome))

(***************************************************************************)
(* toSemanticMessage                                                       *)
(***************************************************************************)
\* The message parts (semantic.ts classes)
TextPart(content) == [t |-> "object", type |-> Str("text"), content |-> content]

ToolCallRequestPart(name, id, args) ==
    [t |-> "object", type |-> Str("tool_call"), name |-> name, id |-> id, arguments |-> args]

ToolCallResponsePart(response, id) ==
    [t |-> "object", type |-> Str("tool_call_response"), response |-> response, id |-> id]

ChatMessage(role, parts) == [t |-> "object", role |-> role, parts |-> parts]

\* The segments (Part of @google/genai): each of text, functionCall and
\* functionResponse is a value or undefined. The call and the response carry
\* different ids, so that a part's id tells which of the two it was made from.
FunctionCall ==
    [t |-> "object", name |-> Str("test-function"),
     args |-> [t |-> "object", arg1 |-> Str("test-value")], id |-> Str("12345")]

FunctionResponse ==
    [t |-> "object", name |-> Str("test-function"),
     response |-> [t |-> "object", result |-> Str("success")], id |-> Str("67890")]

Part(text, functionCall, functionResponse) ==
    [t |-> "object", text |-> text, functionCall |-> functionCall,
     functionResponse |-> functionResponse]

Parts ==
    { Part(text, functionCall, functionResponse) :
        text \in {Undefined, Str(""), Str("Hello")},
        functionCall \in {Undefined, FunctionCall},
        functionResponse \in {Undefined, FunctionResponse} }

Roles == {Str("user"), Str("model")}

\* Every sequence of n elements of S.
RECURSIVE SeqsOfLen(_, _)
SeqsOfLen(S, n) ==
    IF n = 0 THEN {<<>>} ELSE {Append(s, x) : s \in SeqsOfLen(S, n - 1), x \in S}

\* The turns with k segments; -1 stands for a turn whose segment list is absent.
TurnsWith(k) ==
    IF k = -1
    THEN {Turn(role, Undefined) : role \in Roles}
    ELSE {Turn(role, Arr(s)) : role \in Roles, s \in SeqsOfLen(Parts, k)}

RECURSIVE Sum(_)
Sum(s) == IF s = <<>> THEN 0 ELSE (IF Head(s) = -1 THEN 0 ELSE Head(s)) + Sum(Tail(s))

\* The shapes of a turn list: for each turn the number of its segments, at
\* most MaxTurns turns holding at most MaxParts segments together.
Shapes ==
    {shape \in UNION {[1..n -> -1..MaxParts] : n \in 0..MaxTurns} : Sum(shape) <= MaxParts}

\* The turn lists of a shape.
RECURSIVE TurnLists(_)
TurnLists(shape) ==
    IF shape = <<>>
    THEN {<<>>}
    ELSE {<<content>> \o rest : content \in TurnsWith(Head(shape)),
                                rest \in TurnLists(Tail(shape))}

\* Mutant: a function response is looked at before a function call.
PushPartResponseFirst(parts, part) ==
    IF Truthy(part.text)
    THEN Append(parts, TextPart(part.text))
    ELSE IF Truthy(part.functionResponse)
    THEN Append(parts, ToolCallResponsePart(JSONstringify(Get(part.functionResponse, "response")),
                                            Get(part.functionResponse, "id")))
    ELSE IF Truthy(part.functionCall)
    THEN Append(parts, ToolCallRequestPart(Get(part.functionCall, "name"),
                                           Get(part.functionCall, "id"),
                                           JSONstringify(Get(part.functionCall, "args"))))
    ELSE parts

\* The body of the inner loop: message.parts after the if / else if chain
\* has looked at one segment.
PushPart(parts, part) ==
    IF Truthy(part.text)
    THEN Append(parts, TextPart(part.text))
    ELSE IF Truthy(part.functionCall)
    THEN Append(parts, ToolCallRequestPart(Get(part.functionCall, "name"),
                                           Get(part.functionCall, "id"),
                                           JSONstringify(Get(part.functionCall, "args"))))
    ELSE IF Truthy(part.functionResponse)
    THEN Append(parts, ToolCallResponsePart(JSONstringify(Get(part.functionResponse, "response")),
                                            Get(part.functionResponse, "id")))
    ELSE parts

\* for (const part of content.parts)
RECURSIVE ForParts(_, _)
ForParts(todo, parts) ==
    IF todo = <<>> THEN parts ELSE ForParts(Tail(todo), PushPart(parts, Head(todo)))

\* Mutant: the message is pushed outside the if, also for a turn without a segment list.
PushMessageAlways(msgs, content) ==
    Append(msgs, ChatMessage(content.role,
                             Arr(IF Truthy(content.parts) THEN ForParts(content.parts.v, <<>>)
                                                          ELSE <<>>)))

\* The body of the outer loop: messages after one turn.
PushMessage(msgs, content) ==
    IF Truthy(content.parts)
    THEN Append(msgs, ChatMessage(content.role, Arr(ForParts(content.parts.v, <<>>))))
    ELSE msgs

\* for (const content of contents)
RECURSIVE ForContents(_, _)
ForContents(todo, msgs) ==
    IF todo = <<>> THEN msgs ELSE ForContents(Tail(todo), PushMessage(msgs, Head(todo)))

toSemanticMessage(turns) == Arr(ForContents(turns.v, <<>>))

\* A caller converts the turn list.
ToSemanticMessage ==
    /\ messages = Undefined
    /\ messages' = toSemanticMessage(contentsIn)
    /\ UNCHANGED <<pc, op, req, promptId, startTime, backendArgs, backendSeq, backendEnd,
                   responses, lastUsageMetadata, finishReason, received, result, events,
                   now, sinkFaulty, contentsIn, yielded>>

\* Time passes.
Tick ==
    /\ now < MaxTime
    /\ now' = now + 1
    /\ UNCHANGED <<pc, op, req, promptId, startTime, backendArgs, backendSeq, backendEnd,
                   responses, lastUsageMetadata, finishReason, received, result, events,
                   sinkFaulty,
                   contentsIn, messages, yielded>>

(***************************************************************************)
(* Specifications                                                          *)
(***************************************************************************)
InitCalls ==
    /\ pc = [c \in Calls |-> "idle"]
    /\ op = [c \in Calls |-> "none"]
    /\ req = [c \in Calls |-> Undefined]
    /\ promptId = [c \in Calls |-> Undefined]
    /\ startTime = [c \in Calls |-> 0]
    /\ backendArgs = [c \in Calls |-> <<>>]
    /\ backendSeq = [c \in Calls |-> <<>>]
    /\ backendEnd = [c \in Calls |-> Pending]
    /\ responses = [c \in Calls |-> <<>>]
    /\ lastUsageMetadata = [c \in Calls |-> Undefined]
    /\ finishReason = [c \in Calls |-> Undefined]
    /\ yielded = [c \in Calls |-> Undefined]
    /\ received = [c \in Calls |-> <<>>]
    /\ result = [c \in Calls |-> Pending]
    /\ events = <<>>
    /\ now = 0

\* toSemanticMessage is not called.
InitNoConversion == contentsIn = Arr(<<>>) /\ messages = Undefined

\* The sink never throws (the sink interface is non-failing).
Init == InitCalls /\ sinkFaulty = FALSE /\ InitNoConversion

\* The sink may throw on any event.
InitFaultySink == InitCalls /\ sinkFaulty = TRUE /\ InitNoConversion

\* toSemanticMessage alone, called with any turn list within the bounds.
InitConvert ==
    /\ InitCalls
    /\ sinkFaulty = FALSE
    /\ \E shape \in Shapes : \E turns \in TurnLists(shape) : contentsIn = Arr(turns)
    /\ messages = Undefined

Next ==
    \/ \E c \in Calls : GenerateContent(c)
    \/ \E c \in Calls : GenerateContentFulfilled(c)
    \/ \E c \in Calls : GenerateContentRejected(c)
    \/ \E c \in Calls : GenerateContentStream(c)
    \/ \E c \in Calls : GenerateContentStreamFulfilled(c)
    \/ \E c \in Calls : GenerateContentStreamRejected(c)
    \/ \E c \in Calls : WrapperNext(c)
    \/ \E c \in Calls : WrapperChunk(c)
    \/ \E c \in Calls : WrapperYield(c)
    \/ \E c \in Calls : WrapperDone(c)
    \/ \E c \in Calls : WrapperFailed(c)
    \/ \E c \in Calls : WrapperReturn(c)
    \/ \E c \in Calls : CountTokens(c)
    \/ \E c \in Calls : CountTokensSettled(c)
    \/ \E c \in Calls : EmbedContent(c)
    \/ \E c \in Calls : EmbedContentSettled(c)
    \/ Tick

Spec == Init /\ [][Next]_vars

SpecFaultySink == InitFaultySink /\ [][Next]_vars

\* The steps of call c that do not depend on the caller's choice: the backend
\* settles the operation it was given and produces or ends its sequence, the
\* runtime delivers a yielded chunk, and a caller holding an open wrapper pulls.
\* At most one of them is enabled at a time (each needs a different pc[c]).
Progress(c) ==
    \/ GenerateContentFulfilled(c) \/ GenerateContentRejected(c)
    \/ GenerateContentStreamFulfilled(c) \/ GenerateContentStreamRejected(c)
    \/ WrapperChunk(c) \/ WrapperDone(c) \/ WrapperFailed(c)
    \/ WrapperYield(c)
    \/ WrapperNext(c)

\* The backend terminates, the runtime runs what it has scheduled, and a caller
\* goes on pulling for as long as it does not close the wrapper.
Fairness == \A c \in Calls : WF_vars(Progress(c))

SpecFair == Init /\ [][Next]_vars /\ Fairness

NextConvert == ToSemanticMessage

SpecConvert == InitConvert /\ [][NextConvert]_vars

(***************************************************************************)
(* Reading the sink                                                        *)
(***************************************************************************)
\* The events of call c, in the order the sink accepted them.
EventsOf(c) == SelectSeq(events, LAMBDA e : e.call = c)

\* Their types.
TypesOf(c) == [i \in 1..Len(EventsOf(c)) |-> EventsOf(c)[i].ev.type]

\* The terminal (Response or Error) events of call c.
TerminalsOf(c) == SelectSeq(EventsOf(c), LAMBDA e : e.ev.type \in {"response", "error"})

IsSingleShot(c) == op[c] = "generateContent"
IsStream(c) == op[c] = "generateContentStream"

(***************************************************************************)
(* C1..C10                                                                 *)
(***************************************************************************)
\* C1: when the backend of a single-shot generateContent call has succeeded,
\* the sink holds for that call exactly one Request event followed by exactly
\* one Response event, and no Error event.
C1_SingleShotSuccessEvents ==
    \A c \in Calls :
        IsSingleShot(c) /\ backendEnd[c].k = "returned"
            => TypesOf(c) = <<"request", "response">>

C1_Witness ==
    \E c \in Calls :
        /\ IsSingleShot(c) /\ backendEnd[c].k = "returned"
        /\ result[c].k = "returned"
        /\ Len(EventsOf(c)) = 2

\* C2: when the backend of a single-shot generateContent call has failed, the
\* sink holds for that call exactly one Request event followed by exactly one
\* Error event and no Response event, the backend was invoked once, and the
\* caller's promise rejected with the very failure the backend raised.
C2_SingleShotFailure ==
    \A c \in Calls :
        IsSingleShot(c) /\ backendEnd[c].k = "threw"
            => /\ TypesOf(c) = <<"request", "error">>
               /\ result[c] = Threw(backendEnd[c].v)
               /\ Len(backendArgs[c]) = 1

C2_Witness ==
    \E c \in Calls :
        /\ IsSingleShot(c) /\ backendEnd[c].k = "threw"
        /\ result[c].k = "threw"
        /\ backendEnd[c].v.t = "Error"

\* C3: a stream whose backend sequence produced N chunks and completed, driven
\* to exhaustion: the Request event precedes every forwarded chunk, the sink
\* holds exactly Request then Response for the call and no Error event, all N
\* chunks were forwarded, and the Response event's response text is the
\* serialization of the list of the N chunks in backend order.
C3_StreamCompletionResponse ==
    \A c \in Calls :
        /\ IsStream(c) /\ Len(received[c]) > 0
               => Len(EventsOf(c)) > 0 /\ EventsOf(c)[1].ev.type = "request"
        /\ IsStream(c) /\ backendEnd[c].k = "completed"
               => /\ TypesOf(c) = <<"request", "response">>
                  /\ received[c] = backendSeq[c]
                  /\ EventsOf(c)[2].ev.response_text = JSONstringify(Arr(backendSeq[c]))

\* C4: a stream whose backend sequence failed after producing k chunks:
\* exactly those k chunks were forwarded, the sink holds exactly Request then
\* Error for the call and no Response event, and the wrapper sequence ended
\* by raising the backend's failure.
C4_StreamFailure ==
    \A c \in Calls :
        IsStream(c) /\ backendEnd[c].k = "raised"
            => /\ received[c] = backendSeq[c]
               /\ TypesOf(c) = <<"request", "error">>
               /\ result[c] = Raised(backendEnd[c].v)

C4_Witness ==
    \E c \in Calls :
        /\ IsStream(c) /\ backendEnd[c].k = "raised"
        /\ Len(received[c]) = 1
        /\ result[c].k = "raised"

\* C5: every Response event and every Error event in the sink carries the
\* correlation id the caller passed to the call that emitted it.
C5_TerminalCorrelationId ==
    \A i \in 1..Len(events) :
        events[i].ev.type \in {"response", "error"}
            => events[i].ev.prompt_id = promptId[events[i].call]

\* C6: the Response event of a stream driven to normal completion has the
\* first chunk's model version (the requested model when the first chunk has
\* none) as model, the first chunk's response id, the tracked latest usage
\* metadata with the token counters read from it, and the tracked latest
\* finish reason.
C6_StreamResponseFields ==
    \A c \in Calls :
        IsStream(c) /\ result[c].k = "completed" /\ Len(TerminalsOf(c)) = 1
            => LET ev == TerminalsOf(c)[1].ev
               IN  /\ ev.type = "response"
                   /\ ev.model = FirstModelOr(c)
                   /\ ev.response_id = Get(First(Arr(responses[c])), "responseId")
                   /\ ev.usage_metadata = lastUsageMetadata[c]
                   /\ ev.input_token_count = Get(lastUsageMetadata[c], "promptTokenCount")
                   /\ ev.output_token_count = Get(lastUsageMetadata[c], "candidatesTokenCount")
                   /\ ev.total_token_count = Get(lastUsageMetadata[c], "totalTokenCount")
                   /\ ev.finish_reason = finishReason[c]

\* C7: a sink that throws never changes what the caller observes: after a
\* backend success generateContent returns the backend's response and a driven
\* stream ends with normal completion; after a backend failure the caller
\* observes the backend's failure.
C7_SinkFailureIsolated ==
    \A c \in Calls :
        /\ backendEnd[c].k = "returned" => result[c] = Returned(backendEnd[c].v)
        /\ backendEnd[c].k = "completed" => result[c] = Completed
        /\ backendEnd[c].k = "threw" => result[c] = Threw(backendEnd[c].v)
        /\ backendEnd[c].k = "raised" => result[c] = Raised(backendEnd[c].v)

\* C8: while the caller holds a wrapper that it has not driven to the end of
\* the backend sequence, and after it has closed one, the sink holds no
\* Response and no Error event for that call: only its Request event.
C8_AbandonedStreamSilent ==
    \A c \in Calls :
        result[c].k \in {"streaming", "closed"} => TypesOf(c) = <<"request">>

C8_Witness ==
    \E c \in Calls :
        /\ result[c].k = "closed"
        /\ Len(received[c]) = 1
        /\ backendEnd[c].k = "pending"

\* C9: for every call, at most one terminal event has been emitted, never a
\* Response together with an Error, and a terminal event comes after the
\* call's Request event.
C9_AtMostOneTerminal ==
    \A c \in Calls :
        /\ Len(TerminalsOf(c)) <= 1
        /\ Len(TerminalsOf(c)) = 1
               => Len(EventsOf(c)) = 2 /\ TypesOf(c)[1] = "request"

C9_Witness ==
    \E c \in Calls, d \in Calls :
        /\ IsStream(c) /\ result[c].k = "threw" /\ Len(TerminalsOf(c)) = 1
        /\ IsStream(d) /\ result[d].k = "closed" /\ Len(TerminalsOf(d)) = 0

\* C10: generateContent returns exactly the response the backend returned, the
\* chunks a caller has received from a wrapper, followed by the chunk being
\* handed to it, are at every point exactly the chunks the backend sequence
\* has produced so far, in order, and the backend is invoked with the caller's
\* request and correlation id.
C10_ValueNeutral ==
    \A c \in Calls :
        /\ backendEnd[c].k = "returned" => result[c] = Returned(backendEnd[c].v)
        /\ received[c] \o (IF pc[c] = "yield" THEN <<yielded[c]>> ELSE <<>>) = backendSeq[c]
        /\ \A i \in 1..Len(backendArgs[c]) : backendArgs[c][i] = <<req[c], promptId[c]>>
        /\ pc[c] \notin {"idle"} /\ result[c] # Threw(SinkError) => Len(backendArgs[c]) = 1

C10_Witness ==
    \E c \in Calls, d \in Calls :
        /\ IsStream(c) /\ Len(received[c]) = MaxChunks /\ received[c][1] # received[c][2]
        /\ IsSingleShot(d) /\ result[d].k = "returned"

(***************************************************************************)
(* C11..C20                                                                *)
(***************************************************************************)
IsPassThrough(c) == op[c] \in {"countTokens", "embedContent"}

\* C11: a countTokens or embedContent call never hands any event to the sink,
\* whether the backend succeeds or fails, and the caller's promise settles
\* exactly as the backend's did: same result, or same failure.
C11_PassThroughSilent ==
    \A c \in Calls :
        IsPassThrough(c)
            => /\ EventsOf(c) = <<>>
               /\ backendEnd[c].k \in {"returned", "threw"} => result[c] = backendEnd[c]
               /\ backendEnd[c].k = "pending" => result[c] = Pending

C11_Witness ==
    \E c \in Calls, d \in Calls :
        /\ op[c] = "countTokens" /\ result[c].k = "threw"
        /\ op[d] = "embedContent" /\ result[d].k = "returned"

\* Reading a conversion: the turns that have a segment list, and whether a
\* part is the one a segment gives for one of its fields.
HasParts(content) == content.parts.t # "undefined"
TurnsWithParts == SelectSeq(contentsIn.v, HasParts)
Converted == messages.t # "undefined"

IsTextOf(part, sg) ==
    /\ sg.text.t = "string"
    /\ part = [t |-> "object", type |-> Str("text"), content |-> sg.text]

IsToolCallOf(part, sg) ==
    /\ sg.functionCall.t = "object"
    /\ part = [t |-> "object", type |-> Str("tool_call"), name |-> sg.functionCall.name,
               id |-> sg.functionCall.id,
               arguments |-> [t |-> "string", json |-> sg.functionCall.args]]

IsToolCallResponseOf(part, sg) ==
    /\ sg.functionResponse.t = "object"
    /\ part = [t |-> "object", type |-> Str("tool_call_response"),
               response |-> [t |-> "string", json |-> sg.functionResponse.response],
               id |-> sg.functionResponse.id]

IsPartOf(part, sg) == IsTextOf(part, sg) \/ IsToolCallOf(part, sg) \/ IsToolCallResponseOf(part, sg)

NonEmptyText(sg) == sg.text.t = "string" /\ sg.text.v # ""
NoField(sg) ==
    sg.text.t = "undefined" /\ sg.functionCall.t = "undefined" /\ sg.functionResponse.t = "undefined"
GivesPart(sg) ==
    NonEmptyText(sg) \/ sg.functionCall.t = "object" \/ sg.functionResponse.t = "object"

\* parts holds, in segment order, at most one part of each segment: none for
\* a segment without fields and one for each segment that GivesPart.
RECURSIVE FollowsSegments(_, _)
FollowsSegments(parts, segs) ==
    IF segs = <<>>
    THEN parts = <<>>
    ELSE LET taken == /\ parts # <<>>
                      /\ IsPartOf(Head(parts), Head(segs))
                      /\ FollowsSegments(Tail(parts), Tail(segs))
             skipped == FollowsSegments(parts, Tail(segs))
         IN  CASE GivesPart(Head(segs)) -> taken
               [] NoField(Head(segs)) -> skipped
               [] OTHER -> taken \/ skipped

MessagesMirrorTurns ==
    /\ Len(messages.v) = Len(TurnsWithParts)
    /\ \A i \in 1..Len(messages.v) : messages.v[i].role = TurnsWithParts[i].role

\* C12 as stated: one message per turn with a segment list, in order, with the
\* turn's role, and each message has as many parts as the turn has segments,
\* the j-th part being the part of the j-th segment.
C12_PartsMirrorSegments ==
    Converted =>
        /\ MessagesMirrorTurns
        /\ \A i \in 1..Len(messages.v) :
               /\ i <= Len(TurnsWithParts)
               /\ Len(messages.v[i].parts.v) = Len(TurnsWithParts[i].parts.v)
               /\ \A j \in 1..Len(messages.v[i].parts.v) :
                      IsPartOf(messages.v[i].parts.v[j], TurnsWithParts[i].parts.v[j])

\* C12 amended: one message per turn with a segment list, in order, with the
\* turn's role; a turn without a segment list gives no message; each message's
\* parts follow the order of the turn's segments with at most one part per
\* segment: none for a segment without any of the three fields, exactly one
\* for a segment with a non-empty text, a function call or a function response.
C12_PartsFollowSegments ==
    Converted =>
        /\ MessagesMirrorTurns
        /\ \A i \in 1..Len(messages.v) :
               FollowsSegments(messages.v[i].parts.v, TurnsWithParts[i].parts.v)

C12_Witness ==
    /\ Converted
    /\ Len(contentsIn.v) = 2
    /\ ~HasParts(contentsIn.v[1])
    /\ HasParts(contentsIn.v[2])
    /\ Len(contentsIn.v[2].parts.v) = 2
    /\ NoField(contentsIn.v[2].parts.v[1])
    /\ contentsIn.v[2].parts.v[2].functionResponse.t = "object"
    /\ Len(messages.v) = 1
    /\ Len(messages.v[1].parts.v) = 1

TextOnly(sg) ==
    sg.text.t = "string" /\ sg.functionCall.t = "undefined" /\ sg.functionResponse.t = "undefined"

\* C13: a segment that holds only a text, whatever the string (the empty
\* string included), gives exactly one part, of type text, with that string:
\* a turn of text-only segments gives one text part per segment, in order.
C13_TextOnlyGivesTextPart ==
    Converted =>
        \A i \in 1..Len(messages.v) :
            (\A j \in 1..Len(TurnsWithParts[i].parts.v) : TextOnly(TurnsWithParts[i].parts.v[j]))
                => /\ Len(messages.v[i].parts.v) = Len(TurnsWithParts[i].parts.v)
                   /\ \A j \in 1..Len(messages.v[i].parts.v) :
                          IsTextOf(messages.v[i].parts.v[j], TurnsWithParts[i].parts.v[j])

HasCall(sg) == sg.functionCall.t = "object"
CallWithOthers(sg) == HasCall(sg) /\ (sg.text.t = "string" \/ sg.functionResponse.t = "object")

\* C14 as stated: a segment holding a function call together with a text
\* and/or a function response gives a tool_call part whose arguments are the
\* serialized argument bag: a turn of such segments gives one tool_call part
\* per segment, in order.
C14_CallTakesPrecedence ==
    Converted =>
        \A i \in 1..Len(messages.v) :
            (\A j \in 1..Len(TurnsWithParts[i].parts.v) : CallWithOthers(TurnsWithParts[i].parts.v[j]))
                => /\ Len(messages.v[i].parts.v) = Len(TurnsWithParts[i].parts.v)
                   /\ \A j \in 1..Len(messages.v[i].parts.v) :
                          IsToolCallOf(messages.v[i].parts.v[j], TurnsWithParts[i].parts.v[j])

\* C14 amended: a segment holding a function call and a function response but
\* no text gives a tool_call part whose arguments are the serialized argument
\* bag (the call takes precedence over the response); a segment holding a
\* function call and a non-empty text gives the text part (the text takes
\* precedence over the call), with or without a function response.
C14_TextThenCallThenResponse ==
    Converted =>
        \A i \in 1..Len(messages.v) :
            (\A j \in 1..Len(TurnsWithParts[i].parts.v) :
                 /\ CallWithOthers(TurnsWithParts[i].parts.v[j])
                 /\ TurnsWithParts[i].parts.v[j].text # Str(""))
                => /\ Len(messages.v[i].parts.v) = Len(TurnsWithParts[i].parts.v)
                   /\ \A j \in 1..Len(messages.v[i].parts.v) :
                          LET sg == TurnsWithParts[i].parts.v[j]
                              part == messages.v[i].parts.v[j]
                          IN  IF NonEmptyText(sg) THEN IsTextOf(part, sg) ELSE IsToolCallOf(part, sg)

C14_Witness ==
    /\ Converted
    /\ Len(messages.v) = 1
    /\ Len(TurnsWithParts[1].parts.v) = 2
    /\ TurnsWithParts[1].parts.v[1] = Part(Undefined, FunctionCall, FunctionResponse)
    /\ TurnsWithParts[1].parts.v[2] = Part(Str("Hello"), FunctionCall, Undefined)
    /\ Len(messages.v[1].parts.v) = 2
    /\ messages.v[1].parts.v[1].type = Str("tool_call")
    /\ messages.v[1].parts.v[2].type = Str("text")

\* The parts the stated dispatch gives for a list of segments: for each
\* segment the part of its first populated field in the order text, function
\* call, function response, and nothing for a segment with none populated.
RECURSIVE FirstPopulated(_)
FirstPopulated(segs) ==
    IF segs = <<>>
    THEN <<>>
    ELSE LET sg == Head(segs)
             part == CASE sg.text.t = "string" ->
                              <<[t |-> "object", type |-> Str("text"), content |-> sg.text]>>
                       [] sg.text.t # "string" /\ sg.functionCall.t = "object" ->
                              <<[t |-> "object", type |-> Str("tool_call"),
                                 name |-> sg.functionCall.name, id |-> sg.functionCall.id,
                                 arguments |-> [t |-> "string", json |-> sg.functionCall.args]]>>
                       [] sg.text.t # "string" /\ sg.functionCall.t # "object"
                              /\ sg.functionResponse.t = "object" ->
                              <<[t |-> "object", type |-> Str("tool_call_response"),
                                 response |-> [t |-> "string", json |-> sg.functionResponse.response],
                                 id |-> sg.functionResponse.id]>>
                       [] OTHER -> <<>>
         IN  part \o FirstPopulated(Tail(segs))

\* C15: each segment gives at most one part, the one of its first populated
\* field in the order text, function call, function response (text, tool_call,
\* tool_call_response with the segment's id); a segment with none of the
\* three populated gives no part.
C15_FirstPopulatedField ==
    Converted =>
        \A i \in 1..Len(messages.v) :
            messages.v[i].parts.v = FirstPopulated(TurnsWithParts[i].parts.v)

\* The usage metadata of the last chunk of seq that carries one.
RECURSIVE LastUsageIn(_)
LastUsageIn(seq) ==
    IF seq = <<>> THEN Undefined
    ELSE IF seq[Len(seq)].usageMetadata.t # "undefined" THEN seq[Len(seq)].usageMetadata
    ELSE LastUsageIn(SubSeq(seq, 1, Len(seq) - 1))

\* The first candidate's finish reason of the last chunk of seq that carries one.
RECURSIVE LastFinishReasonIn(_)
LastFinishReasonIn(seq) ==
    IF seq = <<>> THEN Undefined
    ELSE IF FirstFinishReason(seq[Len(seq)]).t # "undefined" THEN FirstFinishReason(seq[Len(seq)])
    ELSE LastFinishReasonIn(SubSeq(seq, 1, Len(seq) - 1))

\* C16: whatever prefix of the backend's chunks the wrapper has processed, its
\* chunk list is that prefix in order, its tracked usage metadata is that of
\* the last chunk of the prefix that carried one and its tracked finish reason
\* is that of the last chunk that carried one (undefined when none did): a
\* chunk without the field never resets the tracked value.
C16_StreamAccumulator ==
    \A c \in Calls :
        IsStream(c)
            => /\ responses[c] = backendSeq[c]
               /\ lastUsageMetadata[c] = LastUsageIn(backendSeq[c])
               /\ finishReason[c] = LastFinishReasonIn(backendSeq[c])

C16_Witness ==
    \E c \in Calls :
        /\ IsStream(c)
        /\ Len(responses[c]) = 2
        /\ responses[c][1].usageMetadata = Usage2
        /\ responses[c][2].usageMetadata = Undefined
        /\ responses[c][2].candidates = Undefined
        /\ lastUsageMetadata[c] = Usage2
        /\ finishReason[c] = Str("STOP")

\* C17: when the wrapped generateContentStream fails before it returns a
\* sequence, the Request event is already in the sink, exactly one Error event
\* and no Response event follow it, the caller gets the same failure, and no
\* wrapper exists: no chunk is ever taken or forwarded and no later event is
\* emitted for the call.
C17_StreamSetupFailure ==
    \A c \in Calls :
        /\ IsStream(c) /\ pc[c] = "awaitGenerateContentStream" => TypesOf(c) = <<"request">>
        /\ IsStream(c) /\ backendEnd[c].k = "threw"
               => /\ TypesOf(c) = <<"request", "error">>
                  /\ result[c] = Threw(backendEnd[c].v)
                  /\ pc[c] = "done"
                  /\ backendSeq[c] = <<>>
                  /\ received[c] = <<>>

\* The other call runs to its end after the setup failure, and nothing is added.
C17_Witness ==
    \E c \in Calls, d \in Calls :
        /\ c # d
        /\ IsStream(c) /\ backendEnd[c].k = "threw" /\ result[c].k = "threw"
        /\ Len(EventsOf(c)) = 2
        /\ EventsOf(c)[2] = events[2]
        /\ pc[d] = "done"
        /\ Len(events) = 4

\* C18: the wrapper takes a chunk from the backend sequence only while a pull
\* of the caller is pending, and hands each chunk to the caller before it
\* takes the next: the chunks taken are the chunks forwarded plus at most the
\* one being yielded, and whenever the wrapper waits for the backend
\* everything taken so far has been forwarded.
C18_PullDriven ==
    \A c \in Calls :
        IsStream(c)
            => /\ Len(received[c]) <= Len(backendSeq[c])
               /\ Len(backendSeq[c]) <= Len(received[c]) + 1
               /\ Len(backendSeq[c]) = Len(received[c]) + 1 <=> pc[c] = "yield"
               /\ pc[c] = "awaitChunk" => Len(backendSeq[c]) = Len(received[c])
               /\ pc[c] = "yield" => yielded[c] = backendSeq[c][Len(backendSeq[c])]
               /\ \A i \in 1..Len(received[c]) : received[c][i] = backendSeq[c][i]

C18_Witness ==
    \E c \in Calls :
        /\ IsStream(c)
        /\ pc[c] = "yield"
        /\ Len(backendSeq[c]) = 2
        /\ Len(received[c]) = 1

\* C19: with two calls started on the same instance, in any interleaving, each
\* caller receives only chunks of its own backend sequence and each call's
\* terminal event is made from that call's own data: the Error event carries
\* the call's own failure, the Response event of a single-shot call the call's
\* own response, and the Response body of a stream is the serialization of
\* exactly that stream's chunks.
C19_ConcurrentCallsIndependent ==
    (\A d \in Calls : pc[d] # "idle")
        => \A c \in Calls :
               /\ \A i \in 1..Len(received[c]) : received[c][i] = backendSeq[c][i]
               /\ Len(TerminalsOf(c)) <= 1
               /\ backendEnd[c].k \in {"threw", "raised"} /\ ~IsPassThrough(c)
                      => /\ Len(TerminalsOf(c)) = 1
                         /\ TerminalsOf(c)[1].ev.type = "error"
                         /\ TerminalsOf(c)[1].ev.error_message
                                = IF backendEnd[c].v.t = "Error" THEN backendEnd[c].v.message
                                                                 ELSE backendEnd[c].v
               /\ IsSingleShot(c) /\ backendEnd[c].k = "returned"
                      => /\ Len(TerminalsOf(c)) = 1
                         /\ TerminalsOf(c)[1].ev.type = "response"
                         /\ TerminalsOf(c)[1].ev.response_text = JSONstringify(backendEnd[c].v)
               /\ IsStream(c) /\ backendEnd[c].k = "completed"
                      => /\ Len(TerminalsOf(c)) = 1
                         /\ TerminalsOf(c)[1].ev.type = "response"
                         /\ TerminalsOf(c)[1].ev.response_text = JSONstringify(Arr(backendSeq[c]))

IsLogged(c) == IsSingleShot(c) \/ IsStream(c)
Observed(c) == result[c].k \in {"returned", "threw", "completed", "raised"}

\* C20: a generateContent or generateContentStream call whose backend
\* operation terminates, and whose wrapper the caller keeps pulling until it
\* ends or closes it, eventually has a terminal (Response or Error) event,
\* unless the caller closed the wrapper; and once the caller has observed the
\* call's outcome the call has its terminal event, never the Request alone.
C20_TerminalEventually ==
    /\ \A c \in Calls : IsLogged(c) ~> (Len(TerminalsOf(c)) = 1 \/ result[c] = Closed)
    /\ [](\A c \in Calls : IsLogged(c) /\ Observed(c) => Len(TerminalsOf(c)) = 1)

C20_Witness ==
    \E c \in Calls, d \in Calls :
        /\ IsStream(c) /\ result[c] = Completed /\ Len(received[c]) = MaxChunks
        /\ TypesOf(c) = <<"request", "response">>
        /\ IsSingleShot(d) /\ result[d].k = "threw"
        /\ TypesOf(d) = <<"request", "error">>

====
